---- MODULE Spec2Model ----
(***************************************************************************)
(* Model of src/app.py: the review parser (parse_review), the rating form  *)
(* (display_review_form and the submit block) and the results file         *)
(* (save_results, check_if_rated).                                         *)
(*                                                                         *)
(* A text is a sequence of tokens.  A section marker such as **Summary**   *)
(* is one token; "nl" is a newline, "sp" a blank, "-" a hyphen, and every  *)
(* other token is a word.                                                  *)
(***************************************************************************)
EXTENDS Integers, Sequences, FiniteSets, TLC

VARIABLES
    review_text,     \* the argument of a parse_review call
    sections,        \* the record that call returns
    parse_pc,        \* "call" before the call, "returned" after it
    mapping_df,      \* data/mapping.csv: user -> <<paper_1, paper_2>>
    parsed,          \* per paper: parsed_reviews, the three reviews of the files parsed
    results_file,    \* data/evaluation_results.csv
    selected_user,   \* per browser session: the sidebar's user selectbox
    selected_paper,  \* per browser session: the sidebar's paper selectbox
    review_order,    \* per browser session: st.session_state['review_order_<user>_<paper>']
    widget_state,    \* per browser session: the value of every rating selectbox of the form
    page,            \* per browser session: what the last script run left on the screen
    pending_rerun,   \* per browser session: st.rerun() was called, the next run is due
    saved_ok         \* the (user, paper) pairs that were told "saved successfully"

parse_vars == <<review_text, sections, parse_pc>>

app_vars == <<mapping_df, parsed, results_file, selected_user, selected_paper, review_order,
              widget_state, page, pending_rerun, saved_ok>>

vars == <<review_text, sections, parse_pc, mapping_df, parsed, results_file, selected_user,
          selected_paper, review_order, widget_state, page, pending_rerun,
          saved_ok>>

(***************************************************************************)
(* Text primitives used by parse_review.                                   *)
(***************************************************************************)
SUM == "**Summary**"
STR == "**Strengths**"
WEA == "**Weaknesses**"
QUE == "**Questions**"

Markers == {SUM, STR, WEA, QUE}

SectionNames == {"Summary", "Strengths", "Weaknesses", "Questions"}

BulletSections == <<"Strengths", "Weaknesses", "Questions">>

Whitespace == {"sp", "nl"}

\* str.strip(): drop leading and trailing whitespace.
Strip(s) ==
    LET keep == {i \in 1..Len(s) : s[i] \notin Whitespace}
    IN  IF keep = {} THEN <<>>
        ELSE LET lo == CHOOSE i \in keep : \A j \in keep : i <= j
                 hi == CHOOSE i \in keep : \A j \in keep : j <= i
             IN  SubSeq(s, lo, hi)

\* Index of the first occurrence of tok in s at or after from, 0 when none.
Find(s, tok, from) ==
    LET hits == {i \in from..Len(s) : s[i] = tok}
    IN  IF hits = {} THEN 0 ELSE CHOOSE i \in hits : \A j \in hits : i <= j

\* re.search(r'<marker>(.*?)(?=<stop>|\Z)', text, re.DOTALL): the leftmost
\* marker, and group(1) runs to the first stop marker after it or to the end.
\* The result is <<matched, group1>>.
LazyMatch(text, marker, stop) ==
    LET m == Find(text, marker, 1)
    IN  IF m = 0 THEN <<FALSE, <<>>>>
        ELSE LET e == Find(text, stop, m + 1)
             IN  <<TRUE, SubSeq(text, m + 1, IF e = 0 THEN Len(text) ELSE e - 1)>>

\* re.search(r'\*\*Questions\*\*(.*)', text, re.DOTALL): to the end of the text.
GreedyMatch(text, marker) ==
    LET m == Find(text, marker, 1)
    IN  IF m = 0 THEN <<FALSE, <<>>>>
        ELSE <<TRUE, SubSeq(text, m + 1, Len(text))>>

\* content.split('\n-')
RECURSIVE SplitNlHyphen(_)
SplitNlHyphen(s) ==
    LET hits == {i \in 1..(Len(s) - 1) : s[i] = "nl" /\ s[i + 1] = "-"}
    IN  IF hits = {} THEN <<s>>
        ELSE LET i == CHOOSE x \in hits : \A y \in hits : x <= y
             IN  <<SubSeq(s, 1, i - 1)>> \o SplitNlHyphen(SubSeq(s, i + 2, Len(s)))

\* Lines 66-69: strip, then remove one leading hyphen and strip again.
CleanPoint(point) ==
    LET cleaned == Strip(point)
    IN  IF Len(cleaned) > 0 /\ cleaned[1] = "-"
        THEN Strip(SubSeq(cleaned, 2, Len(cleaned)))
        ELSE cleaned

RECURSIVE CleanedPoints(_)
CleanedPoints(raw_points) ==
    IF raw_points = <<>> THEN <<>>
    ELSE LET cleaned == CleanPoint(Head(raw_points))
         IN  (IF cleaned # <<>> THEN <<cleaned>> ELSE <<>>)
             \o CleanedPoints(Tail(raw_points))

\* Lines 60-73 for one of Strengths, Weaknesses, Questions.
BulletPoints(match) ==
    IF match[1] THEN CleanedPoints(SplitNlHyphen(Strip(match[2]))) ELSE <<>>

\* Lines 56-57.
SummaryPoints(match) ==
    IF match[1] /\ Strip(match[2]) # <<>> THEN <<Strip(match[2])>> ELSE <<>>

\* A value that is not a string (a JSON null or number), and a string.
NoneValue == [isstr |-> FALSE, chars |-> <<>>]

Str(chars) == [isstr |-> TRUE, chars |-> chars]

EmptySections == [n \in SectionNames |-> <<>>]

NotAvailable == <<"Not", "sp", "Available">>

\* Lines 42-45: the record returned for an input that is not a string.
NonStringResult ==
    [n \in SectionNames |-> IF n = "Summary" THEN <<NotAvailable>> ELSE <<>>]

\* parse_review.  An input is a record: isstr tells whether it is a string,
\* chars is its text (empty when it is not a string).
parse_review(input) ==
    IF ~input.isstr THEN NonStringResult
    ELSE LET text == input.chars
             summary_match == LazyMatch(text, SUM, STR)
             strengths_match == LazyMatch(text, STR, WEA)
             weaknesses_match == LazyMatch(text, WEA, QUE)
             questions_match == GreedyMatch(text, QUE)
         IN  [n \in SectionNames |->
                CASE n = "Summary" -> SummaryPoints(summary_match)
                  [] n = "Strengths" -> BulletPoints(strengths_match)
                  [] n = "Weaknesses" -> BulletPoints(weaknesses_match)
                  [] n = "Questions" -> BulletPoints(questions_match)]

(***************************************************************************)
(* The data folder: user.csv, mapping.csv and the two review files.        *)
(* The review files hold p1 and p2; no review file holds p3.               *)
(***************************************************************************)
NoUser == "--- Select User ---"

NoPaper == "--- Select Paper ID ---"

Unset == "--- Select ---"

rating_options == {Unset, "Agree", "Mostly Agree", "Mostly Disagree", "Disagree"}

\* The ratings the annotator picks from in this model.
PickedRatings == {Unset, "Agree", "Disagree"}

\* user.csv
Users == {"ann"}

Papers == {"p1", "p2", "p3"}

\* The mapping.csv files of this model: the annotator's two papers.
Mappings ==
    {[u \in Users |-> <<"p1", "p2">>], [u \in Users |-> <<"p2", "p3">>]}

reviews_5_3 ==
    [p \in {"p1", "p2"} |->
        IF p = "p1"
        THEN [gold_review |-> Str(<<SUM, "sp", "a">>),
              inference_review |-> Str(<<QUE, "nl", "-", "sp", "N/A">>)]
        ELSE [gold_review |-> Str(<<SUM, "sp", "a">>)]]

reviews_5_5 ==
    [p \in {"p1"} |-> [inference_review |-> Str(<<"a">>)]]

\* dict.get(paper, {}).get(field, "Not Available")
GetReview(reviews, paper, field) ==
    IF paper \in DOMAIN reviews /\ field \in DOMAIN reviews[paper]
    THEN reviews[paper][field]
    ELSE Str(NotAvailable)

Sources == {"gold", "model_5_3", "model_5_5"}

\* Lines 200-208.
ParsedReviewsOf(paper) ==
    [r \in Sources |->
        CASE r = "gold" -> parse_review(GetReview(reviews_5_3, paper, "gold_review"))
          [] r = "model_5_3" ->
                parse_review(GetReview(reviews_5_3, paper, "inference_review"))
          [] r = "model_5_5" ->
                parse_review(GetReview(reviews_5_5, paper, "inference_review"))]

\* parse_review is a function of the review files alone: the parsed reviews
\* of every paper are computed when the application starts and kept.
ParsedTable == [p \in Papers |-> ParsedReviewsOf(p)]

parsed_reviews(paper) == parsed[paper]

\* Lines 172-180: the papers the sidebar offers.
paper_ids(user) ==
    IF user = "master" THEN DOMAIN reviews_5_3
    ELSE IF user \in DOMAIN mapping_df
         THEN {mapping_df[user][1], mapping_df[user][2]}
         ELSE {}

\* random.shuffle of the three reviews: any order.
Orders ==
    {o \in [1..3 -> Sources] : o[1] # o[2] /\ o[1] # o[3] /\ o[2] # o[3]}

OrderKeys == {<<u, p>> : u \in Users, p \in Papers}

(***************************************************************************)
(* The results file.  pandas reads a cell that spells a missing value as   *)
(* NaN and writes NaN as an empty cell; a file written from no records has *)
(* no columns and cannot be read back.  The timestamp column is left out.  *)
(***************************************************************************)
NaStrings ==
    {"", "#N/A", "#N/A N/A", "#NA", "-1.#IND", "-1.#QNAN", "-NaN", "-nan",
     "1.#IND", "1.#QNAN", "<NA>", "N/A", "NA", "NULL", "NaN", "None", "n/a",
     "nan", "null"}

NaN == "float('nan')"

ReadCell(cell) == IF cell \in NaStrings THEN NaN ELSE cell

WriteCell(value) == IF value = NaN THEN "" ELSE value

ReadText(text) ==
    IF text = <<>> \/ (Len(text) = 1 /\ text[1] \in NaStrings) THEN <<NaN>> ELSE text

WriteText(value) == IF value = <<NaN>> THEN <<>> ELSE value

\* pd.read_csv on the rows of the file.
read_csv(rows) ==
    [i \in 1..Len(rows) |->
        [user |-> ReadCell(rows[i].user),
         paper_id |-> ReadCell(rows[i].paper_id),
         review_type |-> ReadCell(rows[i].review_type),
         section |-> ReadCell(rows[i].section),
         point_index |-> rows[i].point_index,
         point_text |-> ReadText(rows[i].point_text),
         rating |-> ReadCell(rows[i].rating)]]

\* DataFrame.to_csv(index=False): the rows as they stand in the file.
to_csv(frame) ==
    [i \in 1..Len(frame) |->
        [user |-> WriteCell(frame[i].user),
         paper_id |-> WriteCell(frame[i].paper_id),
         review_type |-> WriteCell(frame[i].review_type),
         section |-> WriteCell(frame[i].section),
         point_index |-> frame[i].point_index,
         point_text |-> WriteText(frame[i].point_text),
         rating |-> WriteCell(frame[i].rating)]]

NoFile == [exists |-> FALSE, columns |-> FALSE, rows |-> <<>>]

\* save_results.  It is called only after check_if_rated has read the same
\* file in the same run, so the file, when it exists, has columns.
save_results(file, records) ==
    IF file.exists
    THEN [exists |-> TRUE,
          columns |-> file.columns \/ records # <<>>,
          rows |-> to_csv(read_csv(file.rows) \o records)]
    ELSE [exists |-> TRUE, columns |-> records # <<>>, rows |-> to_csv(records)]

\* check_if_rated: "True", "False", or the exception pd.read_csv raises on a
\* file without columns.
check_if_rated(file, user, paper_id) ==
    IF ~file.exists THEN "False"
    ELSE IF ~file.columns THEN "EmptyDataError"
    ELSE LET results_df == read_csv(file.rows)
         IN  IF \E i \in 1..Len(results_df) :
                    results_df[i].user = user /\ results_df[i].paper_id = paper_id
             THEN "True" ELSE "False"

(***************************************************************************)
(* The form.  A rating selectbox is identified by the form it is in and    *)
(* its key; a widget that a run does not render loses its value, and a     *)
(* widget rendered for the first time holds the first option.              *)
(***************************************************************************)
\* A form key that leaves the paper out.
FormKeyShared(paper) == "review_form"

\* Line 223: the key of the form.
FormKey(paper) == paper

\* display_review_form: the keys of the selectboxes of one review.
ReviewKeys(review_type, review_data) ==
    (IF review_data["Summary"] # <<>> THEN {<<review_type, "Summary", 0>>} ELSE {})
    \cup UNION {{<<review_type, BulletSections[k], i>> :
                    i \in 0..(Len(review_data[BulletSections[k]]) - 1)} :
                 k \in 1..Len(BulletSections)}

\* Lines 223-227: the keys of all selectboxes of the form.
FormKeys(paper) ==
    UNION {ReviewKeys(r, parsed_reviews(paper)[r]) : r \in Sources}

WidgetId(paper, key) == <<FormKey(paper), key>>

\* The widget values after a run that renders the form of this paper.
RenderForm(old, paper) ==
    [id \in {WidgetId(paper, k) : k \in FormKeys(paper)} |->
        IF id \in DOMAIN old THEN old[id] ELSE Unset]

NoWidgets == [id \in {} |-> Unset]

\* A validation that looks at the Summary ratings only.
SummaryFieldsRated(order, paper, widgets) ==
    \A k \in 1..Len(order) :
        parsed[paper][order[k]]["Summary"] # <<>> =>
            widgets[<<FormKey(paper), <<order[k], "Summary", 0>>>>] # Unset

\* Lines 232-246: st.session_state[key] is the value of the widget with that
\* key in the form of this run.
all_fields_rated(order, paper, widgets) ==
    \A k \in 1..Len(order) :
        LET review_type == order[k]
            parsed_data == parsed_reviews(paper)[review_type]
        IN  /\ parsed_data["Summary"] # <<>> =>
                 widgets[WidgetId(paper, <<review_type, "Summary", 0>>)] # Unset
            /\ \A j \in 1..Len(BulletSections) :
                 \A i \in 0..(Len(parsed_data[BulletSections[j]]) - 1) :
                    widgets[WidgetId(paper, <<review_type, BulletSections[j], i>>)]
                        # Unset

\* Lines 256-263.
SummaryRecords(user, paper, review_type, parsed_data, widgets) ==
    IF parsed_data["Summary"] # <<>>
    THEN <<[user |-> user, paper_id |-> paper, review_type |-> review_type,
            section |-> "Summary", point_index |-> 0,
            point_text |-> parsed_data["Summary"][1],
            rating |-> widgets[WidgetId(paper, <<review_type, "Summary", 0>>)]]>>
    ELSE <<>>

\* Lines 265-273 for one section.
SectionRecords(user, paper, review_type, parsed_data, widgets, section) ==
    [i \in 1..Len(parsed_data[section]) |->
        [user |-> user, paper_id |-> paper, review_type |-> review_type,
         section |-> section, point_index |-> i - 1,
         point_text |-> parsed_data[section][i],
         rating |-> widgets[WidgetId(paper, <<review_type, section, i - 1>>)]]]

ReviewRecords(user, paper, review_type, widgets) ==
    LET parsed_data == parsed_reviews(paper)[review_type]
    IN  SummaryRecords(user, paper, review_type, parsed_data, widgets)
        \o SectionRecords(user, paper, review_type, parsed_data, widgets, "Strengths")
        \o SectionRecords(user, paper, review_type, parsed_data, widgets, "Weaknesses")
        \o SectionRecords(user, paper, review_type, parsed_data, widgets, "Questions")

\* Lines 251-273: the records of a submission, in display order.
Records(user, paper, order, widgets) ==
    ReviewRecords(user, paper, order[1], widgets)
    \o ReviewRecords(user, paper, order[2], widgets)
    \o ReviewRecords(user, paper, order[3], widgets)

(***************************************************************************)
(* The application: one script run per interaction of a browser session.   *)
(***************************************************************************)
Sessions == {1, 2}

NoOrder == <<>>

\* form: the rating form is on the screen; disabled: the run found the paper
\* already rated (the notice of line 189, the disabled submit button);
\* failed: the "Validation Failed" error of line 249 is on the screen.
BlankPage == [form |-> FALSE, disabled |-> FALSE, failed |-> FALSE]

\* A shuffle on every run.
ShuffleAlways(stored) == Orders

\* Lines 212-219: the order is shuffled only when none is stored.
ShuffleChoices(stored) == IF stored = NoOrder THEN Orders ELSE {stored}

AppInit ==
    /\ parsed = ParsedTable
    /\ results_file = NoFile
    /\ selected_user = [s \in Sessions |-> NoUser]
    /\ selected_paper = [s \in Sessions |-> NoPaper]
    /\ review_order = [s \in Sessions |-> [k \in OrderKeys |-> NoOrder]]
    /\ widget_state = [s \in Sessions |-> NoWidgets]
    /\ page = [s \in Sessions |-> BlankPage]
    /\ pending_rerun = [s \in Sessions |-> FALSE]
    /\ saved_ok = {}

\* A run that does not reach the form (lines 169, 184 false): no rating
\* widget is rendered, so their values are dropped.
RunWithoutForm(s) ==
    /\ widget_state' = [widget_state EXCEPT ![s] = NoWidgets]
    /\ page' = [page EXCEPT ![s] = BlankPage]
    /\ pending_rerun' = [pending_rerun EXCEPT ![s] = FALSE]
    /\ UNCHANGED <<results_file, review_order, saved_ok>>

\* A run that stops at line 187 because check_if_rated raises.
RunRaises(s) ==
    /\ page' = [page EXCEPT ![s] = BlankPage]
    /\ pending_rerun' = [pending_rerun EXCEPT ![s] = FALSE]
    /\ UNCHANGED <<results_file, review_order, widget_state, saved_ok>>

\* The page a run with the form leaves: line 187-189, 229 and 249.
FormPage(user, paper, failed) ==
    [form |-> TRUE,
     disabled |-> check_if_rated(results_file, user, paper) = "True",
     failed |-> failed]

\* Lines 184-279 for a selected paper.  submitted is the value of the submit
\* button in this run: TRUE in the run that a click on it starts.
RunWithForm(s, user, paper, submitted) ==
    /\ widget_state' =
          [widget_state EXCEPT ![s] = RenderForm(widget_state[s], paper)]
    /\ \E shuffled_reviews \in ShuffleChoices(review_order[s][<<user, paper>>]) :
          IF submitted /\ all_fields_rated(shuffled_reviews, paper, widget_state'[s])
          THEN /\ results_file' =
                     save_results(results_file,
                         Records(user, paper, shuffled_reviews, widget_state'[s]))
               /\ saved_ok' = saved_ok \cup {<<user, paper>>}
               /\ review_order' =
                     [review_order EXCEPT ![s][<<user, paper>>] = NoOrder]
               /\ pending_rerun' = [pending_rerun EXCEPT ![s] = TRUE]
               /\ page' = [page EXCEPT ![s] = FormPage(user, paper, FALSE)]
          ELSE /\ review_order' =
                     [review_order EXCEPT ![s][<<user, paper>>] = shuffled_reviews]
               /\ pending_rerun' = [pending_rerun EXCEPT ![s] = FALSE]
               /\ page' = [page EXCEPT ![s] = FormPage(user, paper, submitted)]
               /\ UNCHANGED <<results_file, saved_ok>>

\* One run of the script, lines 160-282.
RunScript(s, user, paper, submitted) ==
    IF user = NoUser \/ paper = NoPaper THEN RunWithoutForm(s)
    ELSE IF check_if_rated(results_file, user, paper) = "EmptyDataError"
         THEN RunRaises(s)
         ELSE RunWithForm(s, user, paper, submitted)

\* The annotator picks another entry of the user selectbox.  The paper
\* selectbox is keyed by the user, so the new one starts at its first option.
SelectUser(s) ==
    /\ ~pending_rerun[s]
    /\ \E user \in Users \cup {NoUser} :
          /\ user # selected_user[s]
          /\ selected_user' = [selected_user EXCEPT ![s] = user]
          /\ selected_paper' = [selected_paper EXCEPT ![s] = NoPaper]
          /\ RunScript(s, user, NoPaper, FALSE)
    /\ UNCHANGED <<mapping_df, parsed, parse_vars>>

\* The annotator picks another entry of the paper selectbox.
SelectPaper(s) ==
    /\ ~pending_rerun[s]
    /\ selected_user[s] # NoUser
    /\ \E paper \in paper_ids(selected_user[s]) \cup {NoPaper} :
          /\ paper # selected_paper[s]
          /\ selected_paper' = [selected_paper EXCEPT ![s] = paper]
          /\ RunScript(s, selected_user[s], paper, FALSE)
    /\ UNCHANGED <<selected_user, mapping_df, parsed, parse_vars>>

\* The annotator picks a rating in the form: inside st.form no run starts.
SetRating(s) ==
    /\ ~pending_rerun[s]
    /\ page[s].form
    /\ \E id \in DOMAIN widget_state[s], rating \in PickedRatings :
          /\ rating # widget_state[s][id]
          /\ widget_state' = [widget_state EXCEPT ![s][id] = rating]
    /\ UNCHANGED <<results_file, selected_user, selected_paper, review_order,
                   page, pending_rerun, saved_ok, mapping_df, parsed, parse_vars>>

\* The annotator presses "Submit Ratings" on the form the screen shows; the
\* button was enabled by the run that drew it.
Submit(s) ==
    /\ ~pending_rerun[s]
    /\ page[s].form
    /\ ~page[s].disabled
    /\ RunScript(s, selected_user[s], selected_paper[s], TRUE)
    /\ UNCHANGED <<selected_user, selected_paper, mapping_df, parsed, parse_vars>>

\* The run that st.rerun() (line 279) starts.
Rerun(s) ==
    /\ pending_rerun[s]
    /\ RunScript(s, selected_user[s], selected_paper[s], FALSE)
    /\ UNCHANGED <<selected_user, selected_paper, mapping_df, parsed, parse_vars>>

\* The annotator reruns the page as it is.
Refresh(s) ==
    /\ ~pending_rerun[s]
    /\ selected_paper[s] # NoPaper
    /\ RunScript(s, selected_user[s], selected_paper[s], FALSE)
    /\ UNCHANGED <<selected_user, selected_paper, mapping_df, parsed, parse_vars>>

ParseIdle ==
    /\ review_text = NoneValue
    /\ sections = EmptySections
    /\ parse_pc = "idle"

Init ==
    /\ AppInit
    /\ ParseIdle
    /\ mapping_df \in Mappings

Next ==
    \/ SelectUser(1)
    \/ SelectPaper(1)
    \/ SetRating(1)
    \/ Submit(1)
    \/ Rerun(1)
    \/ Refresh(1)

Spec == Init /\ [][Next]_vars

\* The same annotator in two browser sessions over one results file.
NextTwoSessions ==
    \E s \in Sessions :
        \/ SelectUser(s)
        \/ SelectPaper(s)
        \/ SetRating(s)
        \/ Submit(s)
        \/ Rerun(s)
        \/ Refresh(s)

\* A data folder whose mapping.csv names p2 in both paper columns.
InitTwoSessions ==
    /\ AppInit
    /\ ParseIdle
    /\ mapping_df = [u \in Users |-> <<"p2", "p2">>]

SpecTwoSessions == InitTwoSessions /\ [][NextTwoSessions]_vars


(***************************************************************************)
(* Properties of the form and of the results file.                         *)
(***************************************************************************)
SomeUnset(s) == \E id \in DOMAIN widget_state[s] : widget_state[s][id] = Unset

CurrentKey(s) == <<selected_user[s], selected_paper[s]>>

\* C1: a submission with a rendered point still unset is rejected: the
\* results file is left as it was, nobody is told "saved", and the stored
\* display order is kept.
C1_RejectedSubmission ==
    [][\A s \in Sessions :
          (Submit(s) /\ SomeUnset(s)) =>
              /\ page'[s].failed
              /\ results_file' = results_file
              /\ saved_ok' = saved_ok
              /\ review_order' = review_order
              /\ review_order[s][CurrentKey(s)] \in Orders]_vars

C1_Witness ==
    /\ page[1].failed
    /\ SomeUnset(1)
    /\ \E id \in DOMAIN widget_state[1] : widget_state[1][id] # Unset
    /\ results_file = NoFile

\* The rows a submission of session s should add for the widget id.
RowsFor(rows, s, id) ==
    {i \in 1..Len(rows) :
        /\ rows[i].user = selected_user[s]
        /\ rows[i].paper_id = selected_paper[s]
        /\ rows[i].review_type = id[2][1]
        /\ rows[i].section = id[2][2]
        /\ rows[i].point_index = id[2][3]
        /\ rows[i].rating = widget_state[s][id]}

\* C2: an accepted submission appends exactly one record per rendered point,
\* with the user, the paper, the source key, the section, the index and the
\* selected rating, and the records already in the file stay as they were,
\* in the same order.
C2_AppendsOneRecordPerPoint ==
    [][\A s \in Sessions :
          (Submit(s) /\ ~SomeUnset(s)) =>
              LET old == results_file.rows
                  new == results_file'.rows
                  added == SubSeq(new, Len(old) + 1, Len(new))
              IN  /\ Len(new) = Len(old) + Cardinality(DOMAIN widget_state[s])
                  /\ \A id \in DOMAIN widget_state[s] :
                        Cardinality(RowsFor(added, s, id)) = 1
                  /\ SubSeq(new, 1, Len(old)) = old]_vars

RowKey(row) ==
    <<row.user, row.paper_id, row.review_type, row.section, row.point_index>>

\* C3: the results file holds at most one record for each (user, paper,
\* review source, section, point index).
C3_NoDuplicateRecords ==
    \A i \in 1..Len(results_file.rows) :
        \A j \in 1..Len(results_file.rows) :
            RowKey(results_file.rows[i]) = RowKey(results_file.rows[j]) => i = j

\* C4: once a submission for a (user, paper) was saved successfully,
\* check_if_rated returns true for that pair.
C4_SavedIsRated ==
    \A k \in saved_ok : check_if_rated(results_file, k[1], k[2]) = "True"

Accepted(s, k) == pending_rerun'[s] /\ ~pending_rerun[s] /\ k = CurrentKey(s)

\* C6: the display order of a (user, paper) is a permutation of the three
\* sources, is stored when the form is first displayed, stays the same on
\* every later run, and is removed when a submission for the pair succeeds.
C6_OrderStable ==
    [][\A s \in Sessions :
          /\ \A k \in OrderKeys :
                review_order[s][k] # NoOrder =>
                    /\ review_order[s][k] \in Orders
                    /\ review_order'[s][k] =
                          IF Accepted(s, k) THEN NoOrder ELSE review_order[s][k]
          /\ (page'[s].form /\ ~pending_rerun'[s]) =>
                review_order'[s][<<selected_user'[s], selected_paper'[s]>>] \in Orders
       ]_vars

C6_Witness ==
    /\ pending_rerun[1]
    /\ selected_paper[1] = "p2"
    /\ review_order[1][<<"ann", "p2">>] = NoOrder
    /\ review_order[1][<<"ann", "p1">>] \in Orders

(***************************************************************************)
(* The parser on its own: every text up to MaxLen tokens, and a value that *)
(* is not a string (a JSON null, a number).                                *)
(***************************************************************************)
MaxLen == 4

Tokens == Markers \cup {"nl", "sp", "-", "a"}

RECURSIVE TextsOfLen(_)
TextsOfLen(n) ==
    IF n = 0 THEN {<<>>}
    ELSE {Append(t, c) : t \in TextsOfLen(n - 1), c \in Tokens}

Texts == UNION {TextsOfLen(n) : n \in 0..MaxLen}

Inputs == {Str(t) : t \in Texts} \cup {NoneValue}

ParseInit ==
    /\ review_text \in Inputs
    /\ sections = EmptySections
    /\ parse_pc = "call"
    /\ AppInit
    /\ mapping_df = [u \in Users |-> <<"p1", "p2">>]

Parse ==
    /\ parse_pc = "call"
    /\ sections' = parse_review(review_text)
    /\ parse_pc' = "returned"
    /\ UNCHANGED <<review_text, app_vars>>

ParseNext == Parse

ParseSpec == ParseInit /\ [][ParseNext]_vars

(***************************************************************************)
(* Properties of parse_review.                                             *)
(***************************************************************************)
MarkerOf(n) ==
    CASE n = "Summary" -> SUM
      [] n = "Strengths" -> STR
      [] n = "Weaknesses" -> WEA
      [] n = "Questions" -> QUE

Occurs(tok, text) == \E i \in 1..Len(text) : text[i] = tok

Returned == parse_pc = "returned"

\* C7: parse_review returns a record with exactly the four sections, and a
\* section whose marker does not occur in the review text has no points.
C7_MissingMarkerEmpty ==
    Returned =>
        /\ DOMAIN sections = SectionNames
        /\ \A n \in SectionNames :
              ~Occurs(MarkerOf(n), review_text.chars) => sections[n] = <<>>

\* The review has no Summary: it is not a string at all, it has no
\* **Summary** marker, or the text after the marker is blank.
NoSummary(input) ==
    \/ ~input.isstr
    \/ ~Occurs(SUM, input.chars)
    \/ Strip(LazyMatch(input.chars, SUM, STR)[2]) = <<>>

\* C8: a review with no Summary yields a record with no summary point.
C8_NoSummaryNoPoint ==
    (Returned /\ NoSummary(review_text)) => sections["Summary"] = <<>>

\* The body of a bullet section as the code extracts it (lines 52-54, 61).
Content(text, n) ==
    Strip(IF n = "Questions" THEN GreedyMatch(text, QUE)[2]
          ELSE IF n = "Strengths" THEN LazyMatch(text, STR, WEA)[2]
          ELSE LazyMatch(text, WEA, QUE)[2])

\* The hyphen bullets of a body: a hyphen that opens a line.
BulletStarts(content) ==
    {i \in 1..Len(content) :
        content[i] = "-" /\ (i = 1 \/ content[i - 1] = "nl")}

\* The text of the bullet that starts at i: up to the next bullet, trimmed.
BulletText(content, i) ==
    LET later == {j \in BulletStarts(content) : j > i}
        stop == IF later = {} THEN Len(content) + 1
                ELSE CHOOSE j \in later : \A k \in later : j <= k
    IN  Strip(SubSeq(content, i + 1, stop - 1))

NonEmptyBullets(content) ==
    Cardinality({i \in BulletStarts(content) : BulletText(content, i) # <<>>})

\* C9: every point of Strengths, Weaknesses and Questions is trimmed, does
\* not start with a hyphen and is non-empty, and no bullet with non-empty
\* text is dropped.
C9_BulletPoints ==
    (Returned /\ review_text.isstr) =>
        \A k \in 1..Len(BulletSections) :
            LET n == BulletSections[k]
                points == sections[n]
            IN  /\ \A i \in 1..Len(points) :
                      /\ points[i] = Strip(points[i])
                      /\ points[i] # <<>>
                      /\ points[i][1] # "-"
                /\ Len(points) >= NonEmptyBullets(Content(review_text.chars, n))

\* C10: no point of any section contains a section marker, that is, text
\* from beyond the next marker present in the review.
C10_NoMarkerInPoints ==
    (Returned /\ review_text.isstr) =>
        \A n \in SectionNames :
            \A i \in 1..Len(sections[n]) :
                \A j \in 1..Len(sections[n][i]) : sections[n][i][j] \notin Markers

====
